---------------------------- MODULE Spec2Model ----------------------------
(***************************************************************************)
(* Security dashboard: the in-memory data engine (sort, filter, metrics)   *)
(* and the guarded, deferred sort of the virtualized table.                *)
(*                                                                         *)
(* JavaScript values are tagged records [t, v]; a string is the sequence   *)
(* of its UTF-16 code units, so that toLowerCase and the ordinal           *)
(* comparison of strings are computed, not assumed.                        *)
(***************************************************************************)
EXTENDS Integers, Sequences, FiniteSets, TLC

(***************************************************************************)
(* Bounds of the model.                                                    *)
(***************************************************************************)
MaxLen == 3          \* longest array handed to a pure function
MaxRows == 2         \* longest dataset loaded into the dashboard
MaxCalls == 2        \* most sortData calls made on one worker hook
MaxRaw == 2          \* most record candidates in one parsed document
MaxBurst == 2        \* most input changes counted between two filter applies

(***************************************************************************)
(* JavaScript values.                                                      *)
(***************************************************************************)
Undefined == [t |-> "undefined", v |-> <<>>]
Null == [t |-> "null", v |-> <<>>]
Str(s) == [t |-> "string", v |-> s]
Num(n) == [t |-> "number", v |-> <<n>>]
Arr(a) == [t |-> "array", v |-> a]
Obj(keys) == [t |-> "object", v |-> keys]

IsNullish(x) == x.t = "undefined" \/ x.t = "null"
NumVal(x) == x.v[1]

\* code units of the strings the model uses
sCritical == <<67, 114, 105, 116, 105, 99, 97, 108>>
sHIGH == <<72, 73, 71, 72>>
sHigh == <<72, 105, 103, 104>>
sLow == <<76, 111, 119>>
sCRITICAL == <<67, 82, 73, 84, 73, 67, 65, 76>>
sConstructor == <<67, 111, 110, 115, 116, 114, 117, 99, 116, 111, 114>>
sWeird == <<63>>
sEmpty == <<>>
lcCritical == <<99, 114, 105, 116, 105, 99, 97, 108>>
lcHigh == <<104, 105, 103, 104>>
lcMedium == <<109, 101, 100, 105, 117, 109>>
lcLow == <<108, 111, 119>>
lcConstructor == <<99, 111, 110, 115, 116, 114, 117, 99, 116, 111, 114>>
sInvalidNoRisk ==
    <<105, 110, 118, 97, 108, 105, 100, 32, 45, 32, 110, 111, 114, 105, 115, 107>>
sAiInvalidNoRisk ==
    <<97, 105, 45, 105, 110, 118, 97, 108, 105, 100, 45, 110, 111, 114, 105, 115, 107>>
sNeedsReview == <<110, 101, 101, 100, 115, 45, 114, 101, 118, 105, 101, 119>>
sHasFix == <<72, 97, 115, 32, 102, 105, 120>>
sInUse == <<73, 110, 32, 117, 115, 101>>

\* String.prototype.toLowerCase on the ASCII range
ToLowerUnit(c) == IF c >= 65 /\ c <= 90 THEN c + 32 ELSE c
toLowerCase(s) == [i \in 1..Len(s) |-> ToLowerUnit(s[i])]

\* the relational operator < on two strings: code-unit lexicographic order
RECURSIVE StrLess(_, _)
StrLess(a, b) ==
    IF b = <<>> THEN FALSE
    ELSE IF a = <<>> THEN TRUE
    ELSE IF Head(a) < Head(b) THEN TRUE
    ELSE IF Head(a) > Head(b) THEN FALSE
    ELSE StrLess(Tail(a), Tail(b))

(***************************************************************************)
(* SEVERITY_ORDER and its lookup with the || 0 default.                    *)
(***************************************************************************)
SEVERITY_ORDER(key) ==
    IF key = lcCritical THEN 4
    ELSE IF key = lcHigh THEN 3
    ELSE IF key = lcMedium THEN 2
    ELSE IF key = lcLow THEN 1
    ELSE 0

\* a.severity?.toLowerCase() || ''
SeverityKey(rec) ==
    IF IsNullish(rec.severity) THEN sEmpty ELSE toLowerCase(rec.severity.v)

\* keys that the object literal SEVERITY_ORDER answers from Object.prototype:
\* the lookup yields a function, which is truthy, so || 0 does not apply and
\* the difference of the two ranks is NaN
InheritedKeys == {lcConstructor}
SeverityIsNaN(rec) == SeverityKey(rec) \in InheritedKeys

\* a.riskFactors?.length || 0
RiskFactorsCount(rec) ==
    IF rec.riskFactors.t = "array" THEN Len(rec.riskFactors.v) ELSE 0

(***************************************************************************)
(* The comparator handed to Array.prototype.sort by sortVulnerabilities.   *)
(***************************************************************************)
compareFnStringsAscending(a, b, field, direction) ==
    IF field = "riskFactorsCount"
    THEN LET aCount == RiskFactorsCount(a)
             bCount == RiskFactorsCount(b)
         IN  IF direction = "asc" THEN aCount - bCount ELSE bCount - aCount
    ELSE IF field = "severity"
    THEN LET aSeverity == SEVERITY_ORDER(SeverityKey(a))
             bSeverity == SEVERITY_ORDER(SeverityKey(b))
         IN  IF SeverityIsNaN(a) \/ SeverityIsNaN(b)
             THEN 0    \* the sort takes a NaN result as +0
             ELSE IF direction = "asc" THEN aSeverity - bSeverity
                                       ELSE bSeverity - aSeverity
    ELSE LET aVal == a[field]
             bVal == b[field]
         IN  IF IsNullish(aVal) THEN 1
             ELSE IF IsNullish(bVal) THEN -1
             ELSE IF aVal.t = "string" /\ bVal.t = "string"
             THEN LET aStr == toLowerCase(aVal.v)
                      bStr == toLowerCase(bVal.v)
                  IN  IF StrLess(aStr, bStr) THEN -1
                      ELSE IF StrLess(bStr, aStr) THEN 1
                      ELSE 0
             ELSE IF aVal.t = "number" /\ bVal.t = "number"
             THEN IF direction = "asc" THEN NumVal(aVal) - NumVal(bVal)
                                       ELSE NumVal(bVal) - NumVal(aVal)
             ELSE 0

compareFn(a, b, field, direction) ==
    IF field = "riskFactorsCount"
    THEN LET aCount == RiskFactorsCount(a)
             bCount == RiskFactorsCount(b)
         IN  IF direction = "asc" THEN aCount - bCount ELSE bCount - aCount
    ELSE IF field = "severity"
    THEN LET aSeverity == SEVERITY_ORDER(SeverityKey(a))
             bSeverity == SEVERITY_ORDER(SeverityKey(b))
         IN  IF SeverityIsNaN(a) \/ SeverityIsNaN(b)
             THEN 0    \* the sort takes a NaN result as +0
             ELSE IF direction = "asc" THEN aSeverity - bSeverity
                                       ELSE bSeverity - aSeverity
    ELSE LET aVal == a[field]
             bVal == b[field]
         IN  IF IsNullish(aVal) THEN 1
             ELSE IF IsNullish(bVal) THEN -1
             ELSE IF aVal.t = "string" /\ bVal.t = "string"
             THEN LET aStr == toLowerCase(aVal.v)
                      bStr == toLowerCase(bVal.v)
                  IN  IF StrLess(aStr, bStr)
                      THEN (IF direction = "asc" THEN -1 ELSE 1)
                      ELSE IF StrLess(bStr, aStr)
                      THEN (IF direction = "asc" THEN 1 ELSE -1)
                      ELSE 0
             ELSE IF aVal.t = "number" /\ bVal.t = "number"
             THEN IF direction = "asc" THEN NumVal(aVal) - NumVal(bVal)
                                       ELSE NumVal(bVal) - NumVal(aVal)
             ELSE 0

\* a.severity?.toLowerCase() raises a TypeError when severity is neither
\* nullish nor a string
SeverityThrows(rec) == ~IsNullish(rec.severity) /\ rec.severity.t # "string"

\* the comparator is called on every element of an array of two or more
sortVulnerabilitiesThrows(arr, field) ==
    /\ field = "severity"
    /\ Len(arr) >= 2
    /\ \E i \in 1..Len(arr) : SeverityThrows(arr[i])

(***************************************************************************)
(* Array.prototype.sort as the engine runs it on an array shorter than 64  *)
(* elements: the leading run is found (and reversed when strictly          *)
(* descending), then the rest is placed by binary insertion.  Positions    *)
(* are 0-based as in the engine; arr[i + 1] is element i.                  *)
(***************************************************************************)
\* Body applied to the value of e, which is evaluated once
Once(Body(_), e) == CHOOSE r \in {Body(x) : x \in {e}} : TRUE

RECURSIVE RunEnd(_, _, _, _, _)
RunEnd(arr, idx, isDescending, field, direction) ==
    IF idx >= Len(arr) THEN idx
    ELSE LET order == compareFn(arr[idx + 1], arr[idx], field, direction)
         IN  IF isDescending /\ order >= 0 THEN idx
             ELSE IF ~isDescending /\ order < 0 THEN idx
             ELSE RunEnd(arr, idx + 1, isDescending, field, direction)

ReverseRange(arr, n) ==
    [i \in 1..Len(arr) |-> IF i <= n THEN arr[n + 1 - i] ELSE arr[i]]

\* the array after the leading run is made ascending, and the run's length
CountAndMakeRun(arr, field, direction) ==
    IF Len(arr) < 2 THEN [arr |-> arr, run |-> Len(arr)]
    ELSE LET Ascending(runLength) == [arr |-> arr, run |-> runLength]
             Descending(runLength) ==
                 [arr |-> ReverseRange(arr, runLength), run |-> runLength]
         IN  IF compareFn(arr[2], arr[1], field, direction) < 0
             THEN Once(Descending, RunEnd(arr, 2, TRUE, field, direction))
             ELSE Once(Ascending, RunEnd(arr, 2, FALSE, field, direction))

RECURSIVE InsertionPoint(_, _, _, _, _, _)
InsertionPoint(arr, pivot, left, right, field, direction) ==
    IF left >= right THEN left
    ELSE LET mid == left + ((right - left) \div 2)
             order == compareFn(pivot, arr[mid + 1], field, direction)
         IN  IF order < 0
             THEN InsertionPoint(arr, pivot, left, mid, field, direction)
             ELSE InsertionPoint(arr, pivot, mid + 1, right, field, direction)

\* element at 0-based position start moved to 0-based position pos <= start
MoveTo(arr, start, pos) ==
    [i \in 1..Len(arr) |->
        IF i - 1 < pos \/ i - 1 > start THEN arr[i]
        ELSE IF i - 1 = pos THEN arr[start + 1]
        ELSE arr[i - 1]]

RECURSIVE BinaryInsertionSort(_, _, _, _)
BinaryInsertionSort(arr, start, field, direction) ==
    IF start >= Len(arr) THEN arr
    ELSE LET Placed(pos) == MoveTo(arr, start, pos)
             Rest(moved) ==
                 BinaryInsertionSort(moved, start + 1, field, direction)
         IN  Once(Rest,
                  Once(Placed, InsertionPoint(arr, arr[start + 1], 0, start,
                                              field, direction)))

ArraySort(arr, field, direction) ==
    LET Rest(made) == BinaryInsertionSort(made.arr, made.run, field, direction)
    IN  Once(Rest, CountAndMakeRun(arr, field, direction))

(***************************************************************************)
(* Arrays are objects: a heap is a sequence of array contents and a        *)
(* reference is a position in it.  A function takes the heap and the       *)
(* reference of its argument and yields the heap after the call and the    *)
(* reference it returns.                                                   *)
(***************************************************************************)
\* [...data]: a new array with the same elements
spread(heap, ref) == [heap |-> Append(heap, heap[ref]), ref |-> Len(heap) + 1]

\* data.sort(compareFn): reorders the receiver and returns it
sort(heap, ref, field, direction) ==
    LET Sorted(arr) == ArraySort(arr, field, direction)
    IN  [heap |-> [heap EXCEPT ![ref] = Once(Sorted, heap[ref])], ref |-> ref]

SortInPlace(heap, ref, field, direction) == sort(heap, ref, field, direction)

SortInPlaceThenReverse(heap, ref, field, direction) ==
    LET Sorted(arr) ==
            IF direction = "desc"
            THEN ReverseRange(ArraySort(arr, field, "asc"), Len(arr))
            ELSE ArraySort(arr, field, "asc")
    IN  [heap |-> [heap EXCEPT ![ref] = Once(Sorted, heap[ref])], ref |-> ref]

sortVulnerabilities(heap, ref, field, direction) ==
    LET copy == spread(heap, ref)
    IN  sort(copy.heap, copy.ref, field, direction)

\* the content of the array a call returns, and of array 1 after the call
Returned(r) == r.heap[r.ref]
First(r) == r.heap[1]

(***************************************************************************)
(* Search and filter.                                                      *)
(***************************************************************************)
\* String.prototype.includes
includes(s, term) ==
    \E i \in 0..(Len(s) - Len(term)) :
        \A j \in 1..Len(term) : s[i + j] = term[j]

\* item.f?.toLowerCase().includes(term), undefined counting as false
FieldIncludes(val, term) ==
    IF IsNullish(val) THEN FALSE ELSE includes(toLowerCase(val.v), term)

SearchMatch(item, term) ==
    \/ FieldIncludes(item.package, term)
    \/ FieldIncludes(item.severity, term)
    \/ FieldIncludes(item.kaiStatus, term)
    \/ FieldIncludes(item.cve, term)
    \/ FieldIncludes(item.description, term)

\* a criterion of the filters object is active: present and non-empty
Active(criterion) == ~IsNullish(criterion) /\ Len(criterion.v) > 0

SeqToSet(q) == {q[i] : i \in 1..Len(q)}

\* severitySet.has(item.severity || ''), the record's letter case kept
SeverityPassExactCase(item, severitySet) ==
    (IF IsNullish(item.severity) THEN sEmpty ELSE item.severity.v)
        \in severitySet

SeverityPass(item, severitySet) == SeverityKey(item) \in severitySet

RiskFactorPass(item, riskFactorSet) ==
    IF IsNullish(item.riskFactors) \/ item.riskFactors.t # "array"
       \/ Len(item.riskFactors.v) = 0
    THEN FALSE
    ELSE \E i \in 1..Len(item.riskFactors.v) :
             item.riskFactors.v[i] \in riskFactorSet

KaiPass(item, excludeSet) ==
    ~(~IsNullish(item.kaiStatus) /\ item.kaiStatus.v \in excludeSet)

\* the elements Array.prototype.filter keeps, for each of the predicates used
RECURSIVE Kept(_, _, _)
Kept(arr, kind, key) ==
    IF arr = <<>> THEN <<>>
    ELSE LET keep == CASE kind = "search" -> SearchMatch(Head(arr), key)
                       [] kind = "severity" -> SeverityPass(Head(arr), key)
                       [] kind = "risk" -> RiskFactorPass(Head(arr), key)
                       [] kind = "kai" -> KaiPass(Head(arr), key)
         IN  IF keep THEN <<Head(arr)>> \o Kept(Tail(arr), kind, key)
                     ELSE Kept(Tail(arr), kind, key)

\* data.filter(predicate): a new array, the receiver untouched
filter(heap, ref, kind, key) ==
    [heap |-> Append(heap, Kept(heap[ref], kind, key)), ref |-> Len(heap) + 1]

\* returns the argument array itself when the term is empty
searchVulnerabilities(heap, ref, searchTerm) ==
    IF searchTerm = sEmpty
    THEN [heap |-> heap, ref |-> ref]
    ELSE filter(heap, ref, "search", toLowerCase(searchTerm))

\* every active criterion applied to the argument array instead of the
\* result of the criteria before it, the last active one giving the result
filterVulnerabilitiesLastWins(heap, ref, filters) ==
    LET f1 == IF ~IsNullish(filters.searchTerm)
                 /\ filters.searchTerm.v # sEmpty
              THEN searchVulnerabilities(heap, ref, filters.searchTerm.v)
              ELSE [heap |-> heap, ref |-> ref]
        f2 == IF Active(filters.severities)
              THEN filter(f1.heap, ref, "severity",
                       {toLowerCase(x) : x \in SeqToSet(filters.severities.v)})
              ELSE f1
        f3 == IF Active(filters.riskFactors)
              THEN filter(f2.heap, ref, "risk",
                          SeqToSet(filters.riskFactors.v))
              ELSE f2
        f4 == IF Active(filters.excludeKaiStatus)
              THEN filter(f3.heap, ref, "kai",
                          SeqToSet(filters.excludeKaiStatus.v))
              ELSE f3
    IN  f4

filterVulnerabilities(heap, ref, filters) ==
    LET f1 == IF ~IsNullish(filters.searchTerm)
                 /\ filters.searchTerm.v # sEmpty
              THEN searchVulnerabilities(heap, ref, filters.searchTerm.v)
              ELSE [heap |-> heap, ref |-> ref]
        f2 == IF Active(filters.severities)
              THEN filter(f1.heap, f1.ref, "severity",
                       {toLowerCase(x) : x \in SeqToSet(filters.severities.v)})
              ELSE f1
        f3 == IF Active(filters.riskFactors)
              THEN filter(f2.heap, f2.ref, "risk",
                          SeqToSet(filters.riskFactors.v))
              ELSE f2
        f4 == IF Active(filters.excludeKaiStatus)
              THEN filter(f3.heap, f3.ref, "kai",
                          SeqToSet(filters.excludeKaiStatus.v))
              ELSE f3
    IN  f4

(***************************************************************************)
(* Metrics.                                                                *)
(***************************************************************************)
RECURSIVE CountIf(_, _, _)
CountIf(data, kind, key) ==
    IF data = <<>> THEN 0
    ELSE LET item == Head(data)
             hit == CASE kind = "severity" -> SeverityKey(item) = key
                      [] kind = "kai" -> ~IsNullish(item.kaiStatus)
                                         /\ item.kaiStatus.v = key
                      [] kind = "kaiOther" ->
                            ~(~IsNullish(item.kaiStatus)
                              /\ item.kaiStatus.v
                                     \in {sInvalidNoRisk, sAiInvalidNoRisk})
                      [] kind = "risk" ->
                            item.riskFactors.t \in {"array", "object"}
                            /\ key \in SeqToSet(item.riskFactors.v)
         IN  (IF hit THEN 1 ELSE 0) + CountIf(Tail(data), kind, key)

\* item.severity.toLowerCase() raises a TypeError unless severity is a string
groupBySeverityThrows(data) ==
    \E i \in 1..Len(data) : data[i].severity.t # "string"

\* the counts without toLowerCase(): only severities written in lower case
\* reach a bucket
groupBySeverityExactCase(data) ==
    LET Exact(key) ==
            Cardinality({i \in 1..Len(data) : data[i].severity.v = key})
    IN  [critical |-> Exact(lcCritical), high |-> Exact(lcHigh),
         medium |-> Exact(lcMedium), low |-> Exact(lcLow), nan |-> {}]

\* `severity in acc` also holds for a name acc inherits; incrementing that
\* member stores NaN under the name, beside the four counts
groupBySeverity(data) ==
    [critical |-> CountIf(data, "severity", lcCritical),
     high |-> CountIf(data, "severity", lcHigh),
     medium |-> CountIf(data, "severity", lcMedium),
     low |-> CountIf(data, "severity", lcLow),
     nan |-> {key \in InheritedKeys :
                 \E i \in 1..Len(data) : SeverityKey(data[i]) = key}]

RiskLabels(data) ==
    UNION {IF data[i].riskFactors.t \in {"array", "object"}
           THEN SeqToSet(data[i].riskFactors.v) ELSE {} : i \in 1..Len(data)}

\* a label counts once per occurrence; the model's records list a label once
calculateRiskFrequency(data) ==
    [label \in RiskLabels(data) |-> CountIf(data, "risk", label)]

\* the metrics with an other bucket that leaves out only the first tag
processVulnerabilityDataOtherOverlaps(data) ==
    [total |-> Len(data),
     severityDistribution |-> groupBySeverity(data),
     riskFactorsFrequency |-> calculateRiskFrequency(data),
     kaiStatusBreakdown |->
         [invalidNoRisk |-> CountIf(data, "kai", sInvalidNoRisk),
          aiInvalidNoRisk |-> CountIf(data, "kai", sAiInvalidNoRisk),
          other |-> Len(data) - CountIf(data, "kai", sInvalidNoRisk)]]

processVulnerabilityData(data) ==
    [total |-> Len(data),
     severityDistribution |-> groupBySeverity(data),
     riskFactorsFrequency |-> calculateRiskFrequency(data),
     kaiStatusBreakdown |->
         [invalidNoRisk |-> CountIf(data, "kai", sInvalidNoRisk),
          aiInvalidNoRisk |-> CountIf(data, "kai", sAiInvalidNoRisk),
          other |-> CountIf(data, "kaiOther", sEmpty)]]

NoMetrics ==
    [total |-> 0,
     severityDistribution |-> [critical |-> 0, high |-> 0, medium |-> 0,
                               low |-> 0, nan |-> {}],
     riskFactorsFrequency |-> <<>>,
     kaiStatusBreakdown |-> [invalidNoRisk |-> 0, aiInvalidNoRisk |-> 0, other |-> 0]]

(***************************************************************************)
(* Records and inputs of the model.                                        *)
(***************************************************************************)
Rec(id, package, severity, cvss, riskFactors, kaiStatus) ==
    [id |-> id, package |-> package, severity |-> severity, cvss |-> cvss,
     riskFactors |-> riskFactors, kaiStatus |-> kaiStatus,
     cve |-> Undefined, description |-> Undefined]

rHigh == Rec(Str(<<49>>), Str(<<98>>), Str(sHigh), Num(75),
             Arr(<<sHasFix>>), Str(sInvalidNoRisk))
rCritical == Rec(Str(<<50>>), Str(<<66>>), Str(sCRITICAL), Num(98),
                 Arr(<<sHasFix, sInUse>>), Str(sAiInvalidNoRisk))
rLow == Rec(Str(<<51>>), Str(<<97>>), Str(sLow), Num(20),
            Arr(<<>>), Str(sNeedsReview))
rBare == Rec(Str(<<52>>), Undefined, Undefined, Undefined,
             Undefined, Str(sNeedsReview))
rOdd == Rec(Str(<<53>>), Str(<<65, 98>>), Str(sWeird), Null,
            Arr(<<sInUse>>), Str(sInvalidNoRisk))

\* a severity of 0 in the file is falsy, so the loader leaves it as it is
rZero == Rec(Str(<<54>>), Str(<<99>>), Num(0), Num(50),
             Arr(<<>>), Str(sNeedsReview))

\* a severity that names a member of Object.prototype, risk factors in the
\* keyed form, no kaiStatus
rProto == Rec(Str(<<55>>), Str(<<67>>), Str(sConstructor), Num(40),
              Obj(<<sHasFix>>), Undefined)

PureRecords == {rHigh, rCritical, rLow, rBare, rOdd, rProto}
AppRecords == {rHigh, rLow, rBare}
WorkerBatches == {<<rHigh, rLow>>, <<rLow, rZero>>}
WorkerFields == {"severity", "cvss"}

BoundedSeq(S, n) == UNION {[1..k -> S] : k \in 0..n}

SortFields == {"package", "severity", "cvss", "riskFactorsCount"}
Directions == {"asc", "desc"}
NoField == "null"

Criteria(searchTerm, severities, riskFactors, excludeKaiStatus) ==
    [searchTerm |-> searchTerm, severities |-> severities,
     riskFactors |-> riskFactors, excludeKaiStatus |-> excludeKaiStatus]

NoCriteria == Criteria(Undefined, Undefined, Undefined, Undefined)

PureCriteria ==
    {NoCriteria,
     Criteria(Str(sEmpty), Arr(<<>>), Arr(<<>>), Arr(<<>>)),
     Criteria(Str(<<66>>), Undefined, Undefined, Undefined),
     Criteria(Undefined, Arr(<<sCritical, sHIGH>>), Undefined, Undefined),
     Criteria(Undefined, Undefined, Arr(<<sHasFix>>), Undefined),
     Criteria(Undefined, Undefined, Undefined, Arr(<<sInvalidNoRisk>>)),
     Criteria(Str(<<98>>), Arr(<<sHigh>>), Undefined, Arr(<<sNeedsReview>>))}

(***************************************************************************)
(* State.                                                                  *)
(***************************************************************************)
VARIABLES
    \* VulnerabilityContext
    loadState,          \* "loading", "ready" or "error"
    data,               \* the base dataset
    metrics,            \* the cached VulnerabilityMetrics
    metricsRuns,        \* how many times processVulnerabilityData has run
    filters,            \* the applied filter state
    filteredData,       \* filterVulnerabilities(data, filters)
    filteredIsData,     \* filteredData is the very array held by data
    selectedTab,
    \* MainDashboard
    comparisonList,
    \* VirtualizedTable
    mounted,
    sortField, sortDirection, sortedData, isSorting,
    sortingRef,
    timers,             \* pending setTimeout callbacks with their closures
    timeoutId,          \* the timer the registered effect cleanup clears
    \* what the last step did
    lastStep,           \* name of the last handler
    depsChanged,        \* the sort effect's dependencies changed in it
    sortRan,            \* sortVulnerabilities ran in it
    cancelledPending,   \* its cleanup cleared a pending timer
    deliveredDisposed,  \* a callback has run for an unmounted table
    \* calls of the pure functions
    pBase,              \* the array handed to the functions
    pBase0,             \* its content before any call
    pCall,              \* the last call
    pArg, pArgAfter,    \* the last call's argument before and after it
    pRet,               \* what the last call returned
    pRetSame,           \* pRet is the very array held by pBase
    pStage,             \* "fresh", "called", "chained" or "repeated"
    pAgain,             \* what the repetition of the last call returned
    \* useSortWorker and the worker behind it
    hookState,          \* "rendered", "mounted" or "unmounted"
    workerRef,          \* "null" or "worker"
    requestIdRef,
    pendingRequestsRef, \* the callbacks waiting, by request id
    toWorker,           \* messages posted to the worker, oldest first
    toMain,             \* messages posted by the worker, oldest first
    calls,              \* the requests sortData was called with, in order
    settled,            \* what the promise of each call resolved with
    \* a call of processVulnerabilityData
    pMetrics,           \* the metrics returned, or that the call threw
    \* loadVulnerabilityData
    response,           \* response.data, the parsed JSON document
    loaded,             \* what the call returned or that it threw
    reloaded,           \* the same for a call on the dataset just returned
    \* SearchInterface
    searchTerm,             \* the text of the search input
    suggestions,            \* the autocomplete options
    debouncedApplyFilter,   \* the shared debounce of applyFilter
    debouncedSearch,        \* the debounce of the suggestions
    quiet,                  \* ticks since the last input, up to the wait
    requested,              \* the last value the user gave each filter field
    dirty,                  \* input changes per field in the current burst
    applies,                \* applyFilter invocations since the last input
    sinceReset              \* reset was pressed and no input followed it

ctxVars == <<loadState, data, metrics, metricsRuns, filters, filteredData,
             filteredIsData, selectedTab>>
tableVars == <<mounted, sortField, sortDirection, sortedData, isSorting,
               sortingRef, timers, timeoutId>>
stepVars == <<lastStep, depsChanged, sortRan, cancelledPending,
              deliveredDisposed>>
pureVars == <<pBase, pBase0, pCall, pArg, pArgAfter, pRet, pRetSame, pStage,
              pMetrics, pAgain>>
workerVars == <<hookState, workerRef, requestIdRef, pendingRequestsRef,
                toWorker, toMain, calls, settled>>
loaderVars == <<response, loaded, reloaded>>
searchVars == <<searchTerm, suggestions, debouncedApplyFilter,
                debouncedSearch, quiet, requested, dirty, applies,
                sinceReset>>
vars == <<ctxVars, comparisonList, tableVars, stepVars, pureVars, workerVars,
          loaderVars, searchVars>>

NoFilters == [searchTerm |-> sEmpty, selectedSeverities |-> <<>>]
NoTimeout == 0
NoCall == [fn |-> "none", field |-> NoField, direction |-> "asc",
           filters |-> NoCriteria]

\* the filter state as the criteria object of filterVulnerabilities
ToCriteria(f) ==
    Criteria(Str(f.searchTerm), Arr(f.selectedSeverities), Undefined, Undefined)

AppInit ==
    /\ loadState = "loading"
    /\ data = <<>>
    /\ metrics = NoMetrics
    /\ metricsRuns = 0
    /\ filters = NoFilters
    /\ filteredData = <<>>
    /\ filteredIsData = TRUE
    /\ selectedTab = 0
    /\ comparisonList = <<>>
    /\ mounted = FALSE
    /\ sortField = NoField
    /\ sortDirection = "desc"
    /\ sortedData = <<>>
    /\ isSorting = FALSE
    /\ sortingRef = FALSE
    /\ timers = {}
    /\ timeoutId = NoTimeout
    /\ lastStep = "init"
    /\ depsChanged = FALSE
    /\ sortRan = FALSE
    /\ cancelledPending = FALSE
    /\ deliveredDisposed = FALSE

NotComputed == [threw |-> FALSE, value |-> NoMetrics]

PureIdle ==
    /\ pBase = <<>>
    /\ pBase0 = <<>>
    /\ pCall = NoCall
    /\ pArg = <<>>
    /\ pArgAfter = <<>>
    /\ pRet = <<>>
    /\ pRetSame = FALSE
    /\ pStage = "fresh"
    /\ pAgain = <<>>
    /\ pMetrics = NotComputed

WorkerIdle ==
    /\ hookState = "rendered"
    /\ workerRef = "null"
    /\ requestIdRef = 0
    /\ pendingRequestsRef = {}
    /\ toWorker = <<>>
    /\ toMain = <<>>
    /\ calls = <<>>
    /\ settled = {}

NoResponse ==
    [kind |-> "null", elems |-> <<>>,
     groups |-> [t |-> "absent", entries |-> <<>>],
     vulnerabilities |-> [t |-> "absent", recs |-> <<>>],
     data |-> [t |-> "absent", recs |-> <<>>],
     items |-> [t |-> "absent", recs |-> <<>>],
     others |-> <<>>]
NotLoaded == [status |-> "none", error |-> "none", data |-> <<>>]

LoaderIdle ==
    /\ response = NoResponse
    /\ loaded = NotLoaded
    /\ reloaded = NotLoaded

\* a debounced function with no call waiting
NotPending ==
    [pending |-> FALSE, elapsed |-> 0, filterType |-> "none",
     term |-> sEmpty, severities |-> <<>>]

NoChanges == [searchTerm |-> 0, selectedSeverities |-> 0]

SearchIdle ==
    /\ searchTerm = sEmpty
    /\ suggestions = <<>>
    /\ debouncedApplyFilter = NotPending
    /\ debouncedSearch = NotPending
    /\ quiet = 0
    /\ requested = NoFilters
    /\ dirty = NoChanges
    /\ applies = 0
    /\ sinceReset = FALSE

Init == AppInit /\ PureIdle /\ WorkerIdle /\ LoaderIdle /\ SearchIdle

(***************************************************************************)
(* The sort effect of VirtualizedTable, its cleanup and its deferred       *)
(* callback, as functions of the table's scheduling state.                 *)
(***************************************************************************)
TableState ==
    [data |-> filteredData, sortedData |-> sortedData,
     isSorting |-> isSorting, sortingRef |-> sortingRef, timers |-> timers,
     timeoutId |-> timeoutId, cancelled |-> FALSE, ran |-> FALSE]

Max(S) == CHOOSE x \in S : \A y \in S : y <= x
NewTimerId(ts) == IF ts = {} THEN 1 ELSE Max({t.id : t \in ts}) + 1

\* return () => { clearTimeout(timeoutId); sortingRef.current = false; }
CleanupKeepsTimer(ts) ==
    IF ts.timeoutId = NoTimeout THEN ts
    ELSE [ts EXCEPT !.sortingRef = FALSE, !.timeoutId = NoTimeout]

CleanupKeepsFlag(ts) ==
    IF ts.timeoutId = NoTimeout THEN ts
    ELSE [ts EXCEPT !.timers = {t \in @ : t.id # ts.timeoutId},
                    !.cancelled = \E t \in ts.timers : t.id = ts.timeoutId,
                    !.timeoutId = NoTimeout]

Cleanup(ts) ==
    IF ts.timeoutId = NoTimeout THEN ts
    ELSE [ts EXCEPT !.timers = {t \in @ : t.id # ts.timeoutId},
                    !.cancelled = \E t \in ts.timers : t.id = ts.timeoutId,
                    !.sortingRef = FALSE,
                    !.timeoutId = NoTimeout]

TimeoutCallbackKeepsFlag(ts, t) ==
    LET Publish(sorted) ==
            [ts EXCEPT !.sortedData = Returned(sorted),
                       !.data = First(sorted),
                       !.isSorting = FALSE,
                       !.timers = @ \ {t},
                       !.ran = TRUE]
    IN  IF sortVulnerabilitiesThrows(t.data, t.field)
        THEN [ts EXCEPT !.timers = @ \ {t}]
        ELSE Once(Publish,
                  sortVulnerabilities(<<t.data>>, 1, t.field, t.direction))

\* the deferred callback: sort, publish, clear the indication and the flag;
\* nothing catches an exception of the sort, which ends the callback there
TimeoutCallback(ts, t) ==
    LET Publish(sorted) ==
            [ts EXCEPT !.sortedData = Returned(sorted),
                       !.data = First(sorted),
                       !.isSorting = FALSE,
                       !.sortingRef = FALSE,
                       !.timers = @ \ {t},
                       !.ran = TRUE]
    IN  IF sortVulnerabilitiesThrows(t.data, t.field)
        THEN [ts EXCEPT !.timers = @ \ {t}]
        ELSE Once(Publish,
                  sortVulnerabilities(<<t.data>>, 1, t.field, t.direction))

\* the effect body, run with the props and state of the committed render
SortEffectSynchronous(ts, dataProp, field, direction) ==
    IF field = NoField THEN [ts EXCEPT !.sortedData = dataProp]
    ELSE IF ts.sortingRef THEN ts
    ELSE [ts EXCEPT
            !.sortedData =
                Returned(sortVulnerabilities(<<dataProp>>, 1, field, direction)),
            !.ran = TRUE]

\* the effect without its first branch: with no sort field the rows shown
\* stay as they are
SortEffectKeepsRows(ts, dataProp, field, direction) ==
    IF field = NoField THEN ts
    ELSE IF ts.sortingRef THEN ts
    ELSE LET id == NewTimerId(ts.timers)
         IN  [ts EXCEPT !.sortingRef = TRUE,
                        !.isSorting = TRUE,
                        !.timers = @ \cup {[id |-> id, data |-> dataProp,
                                            field |-> field,
                                            direction |-> direction]},
                        !.timeoutId = id]

SortEffect(ts, dataProp, field, direction) ==
    IF field = NoField THEN [ts EXCEPT !.sortedData = dataProp]
    ELSE IF ts.sortingRef THEN ts
    ELSE LET id == NewTimerId(ts.timers)
         IN  [ts EXCEPT !.sortingRef = TRUE,
                        !.isSorting = TRUE,
                        !.timers = @ \cup {[id |-> id, data |-> dataProp,
                                            field |-> field,
                                            direction |-> direction]},
                        !.timeoutId = id]

\* the effect run again without the previous cleanup: the guard alone
\* decides, and it drops a request made while a sort is pending
RerunEffectWithoutCleanup(ts, dataProp, field, direction) ==
    SortEffect(ts, dataProp, field, direction)

\* a render whose dependencies changed: the previous cleanup, then the effect
RerunEffect(ts, dataProp, field, direction) ==
    SortEffect(Cleanup(ts), dataProp, field, direction)

Commit(ts) ==
    /\ sortedData' = ts.sortedData
    /\ isSorting' = ts.isSorting
    /\ sortingRef' = ts.sortingRef
    /\ timers' = ts.timers
    /\ timeoutId' = ts.timeoutId
    /\ cancelledPending' = ts.cancelled
    /\ sortRan' = ts.ran

Ready == loadState = "ready"

useMemoMetricsEveryRender(base, dataChanged) ==
    [value |-> processVulnerabilityData(base), runs |-> metricsRuns + 1]

\* useMemo(() => processVulnerabilityData(data), [data]) in a provider render
useMemoMetrics(base, dataChanged) ==
    IF dataChanged
    THEN [value |-> processVulnerabilityData(base), runs |-> metricsRuns + 1]
    ELSE [value |-> metrics, runs |-> metricsRuns]

(***************************************************************************)
(* Actions of the dashboard.                                               *)
(***************************************************************************)
Columns == {"package", "severity"}
SearchTerms == {sEmpty, <<98>>}
SeverityChoices == {<<>>, <<sHigh>>}

\* the query resolves: normalized records arrive and the metrics are computed
Load ==
    /\ loadState = "loading"
    /\ \E d \in BoundedSeq(AppRecords, MaxRows) :
          IF groupBySeverityThrows(d)
          THEN /\ loadState' = "error"
               /\ UNCHANGED <<data, metrics, metricsRuns, filteredData,
                              filteredIsData>>
          ELSE LET r == filterVulnerabilities(<<d>>, 1, ToCriteria(filters))
               IN  /\ loadState' = "ready"
                   /\ data' = First(r)
                   /\ metrics' = useMemoMetrics(d, TRUE).value
                   /\ metricsRuns' = useMemoMetrics(d, TRUE).runs
                   /\ filteredData' = Returned(r)
                   /\ filteredIsData' = (r.ref = 1)
    /\ lastStep' = "load"
    /\ depsChanged' = FALSE
    /\ Commit(TableState)
    /\ UNCHANGED <<filters, selectedTab, comparisonList, mounted, sortField,
                   sortDirection, deliveredDisposed, pureVars, workerVars, loaderVars, searchVars>>

\* a click on a column header
handleSort(field) ==
    /\ Ready /\ mounted
    /\ \E d \in Directions :
          /\ IF sortField = field
             THEN d # sortDirection /\ sortField' = sortField
             ELSE sortField' = field
          /\ sortDirection' = d
    /\ Commit(RerunEffect(TableState, filteredData, sortField', sortDirection'))
    /\ lastStep' = "handleSort"
    /\ depsChanged' = TRUE
    /\ UNCHANGED <<ctxVars, comparisonList, mounted, deliveredDisposed,
                   pureVars, workerVars, loaderVars, searchVars>>

\* setFilters, the memoized filterVulnerabilities, and the table's re-render
applyFilter(filterType, value) ==
    /\ Ready
    /\ filters' = [filters EXCEPT ![filterType] = value]
    /\ LET r == filterVulnerabilities(<<data>>, 1, ToCriteria(filters'))
           newArray == ~(r.ref = 1 /\ filteredIsData)
       IN  /\ data' = First(r)
           /\ filteredData' = Returned(r)
           /\ filteredIsData' = (r.ref = 1)
           /\ metrics' = useMemoMetrics(data, FALSE).value
           /\ metricsRuns' = useMemoMetrics(data, FALSE).runs
           /\ depsChanged' = (mounted /\ newArray)
           /\ IF mounted /\ newArray
              THEN Commit(RerunEffect(TableState, Returned(r), sortField,
                                      sortDirection))
              ELSE Commit(TableState)
    /\ lastStep' = "applyFilter"
    /\ UNCHANGED <<loadState, selectedTab,
                   comparisonList, mounted, sortField, sortDirection,
                   deliveredDisposed, pureVars, workerVars, loaderVars>>

\* handleTabChange; the list tab's panel mounts and unmounts the table, and
\* the state of an unmounted instance is discarded
handleTabChange(newValue) ==
    /\ Ready
    /\ newValue # selectedTab
    /\ selectedTab' = newValue
    /\ IF selectedTab = 1
       THEN /\ mounted' = FALSE
            /\ sortField' = NoField
            /\ sortDirection' = "desc"
            /\ Commit([Cleanup(TableState) EXCEPT !.sortedData = <<>>,
                                                  !.isSorting = FALSE])
       ELSE IF newValue = 1
       THEN /\ mounted' = TRUE
            /\ sortField' = NoField
            /\ sortDirection' = "desc"
            /\ Commit(SortEffect([data |-> filteredData,
                                  sortedData |-> filteredData,
                                  isSorting |-> FALSE,
                                  sortingRef |-> FALSE,
                                  timers |-> timers,
                                  timeoutId |-> NoTimeout,
                                  cancelled |-> FALSE, ran |-> FALSE],
                                 filteredData, NoField, "desc"))
       ELSE /\ Commit(TableState)
            /\ UNCHANGED <<mounted, sortField, sortDirection>>
    /\ lastStep' = "handleTabChange"
    /\ depsChanged' = FALSE
    /\ UNCHANGED <<loadState, data, metrics, metricsRuns, filters,
                   filteredData, filteredIsData, comparisonList,
                   deliveredDisposed, pureVars, workerVars, loaderVars, searchVars>>

\* a pending setTimeout(..., 0) callback runs
Timeout ==
    /\ timers # {}
    /\ lastStep' = "timeout"
    /\ depsChanged' = FALSE
    /\ deliveredDisposed' = (deliveredDisposed \/ ~mounted)
    /\ \E t \in timers :
          \E ts \in {TimeoutCallback(TableState, t)} :
              /\ Commit(ts)
              /\ filteredData' = ts.data
              /\ data' = IF filteredIsData THEN ts.data ELSE data
    /\ UNCHANGED <<loadState, metrics, metricsRuns, filters, filteredIsData,
                   selectedTab, comparisonList, mounted, sortField,
                   sortDirection, pureVars, workerVars, loaderVars, searchVars>>

Rows == {sortedData[i] : i \in 1..Len(sortedData)}
ListIds(list) == {list[i].id : i \in 1..Len(list)}

RECURSIVE WithoutId(_, _)
WithoutId(list, id) ==
    IF list = <<>> THEN <<>>
    ELSE IF Head(list).id # id THEN <<Head(list)>> \o WithoutId(Tail(list), id)
    ELSE WithoutId(Tail(list), id)

\* the handler without its find(): the item is appended whether or not a
\* record with its id is in the list
handleAddToComparisonUnkeyed(item) ==
    /\ Ready /\ mounted
    /\ item \in Rows
    /\ Len(comparisonList) <= Len(data)
    /\ comparisonList' = Append(comparisonList, item)
    /\ lastStep' = "handleAddToComparison"
    /\ depsChanged' = FALSE
    /\ Commit(TableState)
    /\ UNCHANGED <<ctxVars, mounted, sortField, sortDirection,
                   deliveredDisposed, pureVars, workerVars, loaderVars, searchVars>>

handleAddToComparison(item) ==
    /\ Ready /\ mounted
    /\ item \in Rows
    /\ comparisonList' = IF item.id \in ListIds(comparisonList)
                         THEN comparisonList
                         ELSE Append(comparisonList, item)
    /\ lastStep' = "handleAddToComparison"
    /\ depsChanged' = FALSE
    /\ Commit(TableState)
    /\ UNCHANGED <<ctxVars, mounted, sortField, sortDirection,
                   deliveredDisposed, pureVars, workerVars, loaderVars, searchVars>>

handleRemoveFromComparison(id) ==
    /\ Ready /\ selectedTab = 2
    /\ id \in ListIds(comparisonList)
    /\ comparisonList' = WithoutId(comparisonList, id)
    /\ lastStep' = "handleRemoveFromComparison"
    /\ depsChanged' = FALSE
    /\ Commit(TableState)
    /\ UNCHANGED <<ctxVars, mounted, sortField, sortDirection,
                   deliveredDisposed, pureVars, workerVars, loaderVars, searchVars>>

handleClearComparison ==
    /\ Ready /\ selectedTab = 2
    /\ comparisonList # <<>>
    /\ comparisonList' = <<>>
    /\ lastStep' = "handleClearComparison"
    /\ depsChanged' = FALSE
    /\ Commit(TableState)
    /\ UNCHANGED <<ctxVars, mounted, sortField, sortDirection,
                   deliveredDisposed, pureVars, workerVars, loaderVars, searchVars>>

Next ==
    \/ Load
    \/ \E field \in Columns : handleSort(field)
    \/ \E value \in SearchTerms :
           applyFilter("searchTerm", value) /\ UNCHANGED searchVars
    \/ \E value \in SeverityChoices :
           applyFilter("selectedSeverities", value) /\ UNCHANGED searchVars
    \/ \E newValue \in 0..2 : handleTabChange(newValue)
    \/ Timeout
    \/ \E item \in AppRecords : handleAddToComparison(item)
    \/ \E item \in AppRecords : handleRemoveFromComparison(item.id)
    \/ handleClearComparison

Spec == Init /\ [][Next]_vars

\* the browser runs a pending zero-delay timer
LiveSpec == Spec /\ WF_vars(Timeout)

(***************************************************************************)
(* Calls of the pure functions on arbitrary bounded inputs.                *)
(***************************************************************************)
appVars == <<ctxVars, comparisonList, tableVars, stepVars>>

PureInit ==
    /\ AppInit
    /\ pBase \in BoundedSeq(PureRecords, MaxLen)
    /\ pBase0 = pBase
    /\ pCall = NoCall
    /\ pArg = <<>>
    /\ pArgAfter = <<>>
    /\ pRet = <<>>
    /\ pRetSame = FALSE
    /\ pStage = "fresh"
    /\ pAgain = <<>>
    /\ pMetrics = NotComputed
    /\ WorkerIdle
    /\ LoaderIdle
    /\ SearchIdle

\* sortVulnerabilities(base, field, direction)
CallSort(field, direction) ==
    /\ pStage = "fresh"
    /\ pStage' = "called"
    /\ LET r == sortVulnerabilities(<<pBase>>, 1, field, direction)
       IN  /\ pArg' = pBase
           /\ pArgAfter' = First(r)
           /\ pBase' = First(r)
           /\ pRet' = Returned(r)
           /\ pRetSame' = (r.ref = 1)
    /\ pCall' = [fn |-> "sort", field |-> field, direction |-> direction,
                 filters |-> NoCriteria]
    /\ UNCHANGED <<pBase0, pAgain, pMetrics, appVars, workerVars, loaderVars, searchVars>>

\* filterVulnerabilities(base, criteria)
CallFilter(criteria) ==
    /\ pStage = "fresh"
    /\ pStage' = "called"
    /\ LET r == filterVulnerabilities(<<pBase>>, 1, criteria)
       IN  /\ pArg' = pBase
           /\ pArgAfter' = First(r)
           /\ pBase' = First(r)
           /\ pRet' = Returned(r)
           /\ pRetSame' = (r.ref = 1)
    /\ pCall' = [fn |-> "filter", field |-> NoField, direction |-> "asc",
                 filters |-> criteria]
    /\ UNCHANGED <<pBase0, pAgain, pMetrics, appVars, workerVars, loaderVars, searchVars>>

\* sortVulnerabilities(filtered, field, direction) on the last filter result
CallSortOnResult(field, direction) ==
    /\ pStage = "called" /\ pCall.fn = "filter"
    /\ pStage' = "chained"
    /\ LET arg == IF pRetSame THEN 1 ELSE 2
           r == sortVulnerabilities(<<pBase, pRet>>, arg, field, direction)
       IN  /\ pArg' = pRet
           /\ pArgAfter' = r.heap[arg]
           /\ pBase' = First(r)
           /\ pRet' = Returned(r)
           /\ pRetSame' = (r.ref = 1)
    /\ pCall' = [fn |-> "sort", field |-> field, direction |-> direction,
                 filters |-> NoCriteria]
    /\ UNCHANGED <<pBase0, pAgain, pMetrics, appVars, workerVars, loaderVars, searchVars>>

\* the last call on the base array, made once more with the same parameters
CallAgain ==
    /\ pStage = "called" /\ pCall.fn \in {"sort", "filter"}
    /\ pStage' = "repeated"
    /\ \E r \in {IF pCall.fn = "sort"
                  THEN sortVulnerabilities(<<pBase>>, 1, pCall.field,
                                           pCall.direction)
                  ELSE filterVulnerabilities(<<pBase>>, 1, pCall.filters)} :
          /\ pBase' = First(r)
          /\ pAgain' = Returned(r)
    /\ UNCHANGED <<pBase0, pCall, pArg, pArgAfter, pRet, pRetSame, pMetrics,
                   appVars,
                   workerVars, loaderVars, searchVars>>

\* processVulnerabilityData(base)
CallMetrics ==
    /\ pStage = "fresh"
    /\ pStage' = "called"
    /\ pArg' = pBase
    /\ pArgAfter' = pBase
    /\ pMetrics' = IF groupBySeverityThrows(pBase)
                   THEN [threw |-> TRUE, value |-> NoMetrics]
                   ELSE [threw |-> FALSE,
                         value |-> processVulnerabilityData(pBase)]
    /\ pCall' = [fn |-> "metrics", field |-> NoField, direction |-> "asc",
                 filters |-> NoCriteria]
    /\ UNCHANGED <<pBase, pBase0, pRet, pRetSame, pAgain, appVars,
                   workerVars, loaderVars, searchVars>>

PureNext ==
    \/ \E field \in SortFields, direction \in Directions :
           CallSort(field, direction)
    \/ \E criteria \in PureCriteria : CallFilter(criteria)
    \/ \E field \in SortFields, direction \in Directions :
           CallSortOnResult(field, direction)
    \/ CallAgain
    \/ CallMetrics

PureSpec == PureInit /\ [][PureNext]_vars

(***************************************************************************)
(* useSortWorker and the sort worker.  A message carries a structured      *)
(* clone of the data, so the worker sorts its own copy.                    *)
(***************************************************************************)
otherVars == <<appVars, pureVars, loaderVars, searchVars>>

Requests ==
    [data : WorkerBatches, field : WorkerFields, direction : Directions]

\* the promise of call number call resolves with a SortResult
Resolve(call, result, error) ==
    [call |-> call, data |-> result, error |-> error]

\* the hook's effect: the worker is created and its handlers are attached
useSortWorkerEffect ==
    /\ hookState = "rendered"
    /\ hookState' = "mounted"
    /\ workerRef' = "worker"
    /\ UNCHANGED <<requestIdRef, pendingRequestsRef, toWorker, toMain, calls,
                   settled, otherVars>>

\* the effect's cleanup on unmount; terminate() discards the messages queued
\* in either direction
useSortWorkerCleanup ==
    /\ hookState = "mounted"
    /\ hookState' = "unmounted"
    /\ workerRef' = "null"
    /\ pendingRequestsRef' = {}
    /\ toWorker' = <<>>
    /\ toMain' = <<>>
    /\ UNCHANGED <<requestIdRef, calls, settled, otherVars>>

sortData(request) ==
    /\ Len(calls) < MaxCalls
    /\ calls' = Append(calls, request)
    /\ IF workerRef = "null"
       THEN /\ settled' = settled \cup
                    {Resolve(Len(calls) + 1, request.data,
                             "Worker not initialized")}
            /\ UNCHANGED <<requestIdRef, pendingRequestsRef, toWorker>>
       ELSE /\ requestIdRef' = requestIdRef + 1
            /\ pendingRequestsRef' = pendingRequestsRef \cup
                    {[requestId |-> requestIdRef', call |-> Len(calls) + 1]}
            /\ toWorker' = Append(toWorker,
                    [type |-> "SORT", data |-> request.data,
                     field |-> request.field,
                     direction |-> request.direction,
                     requestId |-> requestIdRef'])
            /\ UNCHANGED settled
    /\ UNCHANGED <<hookState, workerRef, toMain, otherVars>>

\* self.onmessage of the worker, on the oldest message posted to it
selfOnmessage ==
    /\ toWorker # <<>>
    /\ toWorker' = Tail(toWorker)
    /\ \E e \in {Head(toWorker)} :
          toMain' = Append(toMain,
              IF sortVulnerabilitiesThrows(e.data, e.field)
              THEN [type |-> "SORT_ERROR", data |-> <<>>,
                    error |-> "TypeError", requestId |-> e.requestId]
              ELSE [type |-> "SORT_COMPLETE",
                    data |-> Returned(sortVulnerabilities(<<e.data>>, 1,
                                          e.field, e.direction)),
                    error |-> "none", requestId |-> e.requestId])
    /\ UNCHANGED <<hookState, workerRef, requestIdRef, pendingRequestsRef,
                   calls, settled, otherVars>>

\* onmessage without the lookup by requestId: the reply resolves the oldest
\* pending request
onmessageOldestPending ==
    /\ toMain # <<>>
    /\ toMain' = Tail(toMain)
    /\ \E e \in {Head(toMain)} :
          LET waiting == {p \in pendingRequestsRef :
                             \A q \in pendingRequestsRef :
                                 p.requestId <= q.requestId}
          IN  /\ settled' = settled \cup
                     {IF e.type = "SORT_COMPLETE"
                      THEN Resolve(p.call, e.data, "none")
                      ELSE Resolve(p.call, <<>>, e.error) : p \in waiting}
              /\ pendingRequestsRef' = pendingRequestsRef \ waiting
    /\ UNCHANGED <<hookState, workerRef, requestIdRef, toWorker, calls,
                   otherVars>>

\* workerRef.current.onmessage, on the oldest message posted by the worker
onmessage ==
    /\ toMain # <<>>
    /\ toMain' = Tail(toMain)
    /\ \E e \in {Head(toMain)} :
          LET waiting == {p \in pendingRequestsRef :
                             p.requestId = e.requestId}
          IN  /\ settled' = settled \cup
                     {IF e.type = "SORT_COMPLETE"
                      THEN Resolve(p.call, e.data, "none")
                      ELSE Resolve(p.call, <<>>, e.error) : p \in waiting}
              /\ pendingRequestsRef' = pendingRequestsRef \ waiting
    /\ UNCHANGED <<hookState, workerRef, requestIdRef, toWorker, calls,
                   otherVars>>

\* workerRef.current.onerror: the worker reports an error of its own
onerror ==
    /\ workerRef = "worker"
    /\ settled' = settled \cup
           {Resolve(p.call, <<>>, "Worker error") : p \in pendingRequestsRef}
    /\ pendingRequestsRef' = {}
    /\ UNCHANGED <<hookState, workerRef, requestIdRef, toWorker, toMain,
                   calls, otherVars>>

WorkerNext ==
    \/ useSortWorkerEffect
    \/ useSortWorkerCleanup
    \/ \E request \in Requests : sortData(request)
    \/ selfOnmessage
    \/ onmessage
    \/ onerror

WorkerSpec == Init /\ [][WorkerNext]_vars

(***************************************************************************)
(* loadVulnerabilityData on a parsed JSON document.  A document is an      *)
(* array of record candidates, an object with some of the keys groups,     *)
(* vulnerabilities, data, items and other keys, or a value of another type.*)
(* The nested groups structure is given by its images in traversal order,  *)
(* each with the names of its group, repo and version.                     *)
(***************************************************************************)
Absent == [t |-> "absent", recs |-> <<>>]
ArrayProp(recs) == [t |-> "array", recs |-> recs]
StringProp == [t |-> "string", recs |-> <<>>]

\* a record candidate as it stands in the JSON; a missing field is undefined
Raw(id, package, severity, riskFactors, published, timestamp, name) ==
    [id |-> id, package |-> package, packageName |-> Undefined,
     severity |-> severity, riskFactors |-> riskFactors,
     published |-> published, timestamp |-> timestamp, name |-> name,
     version |-> Undefined, groupName |-> Undefined,
     imageName |-> Undefined]

sVulnDash == <<118, 117, 108, 110, 45>>
\* `vuln-${index}`
VulnId(index) == sVulnDash \o <<48 + index>>

sGroup == <<103>>
sRepo == <<114>>
sVersion == <<49, 46, 48>>

\* x || y
OrElse(x, y) ==
    IF IsNullish(x) \/ (x.t = "string" /\ x.v = <<>>)
          \/ (x.t = "number" /\ NumVal(x) = 0)
    THEN y ELSE x

\* toUpperCase() of a one-unit string; the upper case of U+00DF is "SS"
ToUpperUnit(c) ==
    IF c >= 97 /\ c <= 122 THEN <<c - 32>>
    ELSE IF c = 223 THEN <<83, 83>>
    ELSE <<c>>

\* s.charAt(0).toUpperCase() + s.slice(1).toLowerCase()
TitleCase(s) ==
    IF s = <<>> THEN s
    ELSE ToUpperUnit(s[1]) \o toLowerCase(SubSeq(s, 2, Len(s)))

\* riskFactorsArray of the nested flattening
riskFactorsArray(riskFactors) ==
    IF riskFactors.t = "object" THEN Arr(riskFactors.v)
    ELSE IF riskFactors.t = "array" THEN riskFactors
    ELSE Arr(<<>>)

\* the record pushed for one entry of image.vulnerabilities
FromList(vuln, entry) ==
    [vuln EXCEPT !.package = OrElse(vuln.packageName, Str(entry.repoName)),
                 !.version = Str(entry.version),
                 !.groupName = Str(entry.groupName),
                 !.imageName = OrElse(entry.image.name, Str(entry.repoName)),
                 !.riskFactors = riskFactorsArray(vuln.riskFactors),
                 !.timestamp = OrElse(vuln.published, vuln.timestamp)]

\* the record pushed for an image that is a record itself
FromImage(image, entry) ==
    [image EXCEPT !.package = OrElse(image.packageName,
                                  OrElse(image.package, Str(entry.repoName))),
                  !.version = Str(entry.version),
                  !.groupName = Str(entry.groupName),
                  !.riskFactors = riskFactorsArray(image.riskFactors),
                  !.timestamp = OrElse(image.published, image.timestamp)]

\* what the traversal pushes for one image
FlattenImage(entry) ==
    IF entry.vulnerabilities.t = "array"
    THEN [i \in 1..Len(entry.vulnerabilities.recs) |->
              FromList(entry.vulnerabilities.recs[i], entry)]
    ELSE IF OrElse(entry.image.name, entry.image.severity).t # "undefined"
    THEN <<FromImage(entry.image, entry)>>
    ELSE <<>>

RECURSIVE FlattenGroups(_)
FlattenGroups(entries) ==
    IF entries = <<>> THEN <<>>
    ELSE FlattenImage(Head(entries)) \o FlattenGroups(Tail(entries))

KeyCount(doc) ==
    Cardinality({k \in {"groups", "vulnerabilities", "data", "items"} :
                    doc[k].t # "absent"}) + Len(doc.others)

\* data after the key search: an array of candidates or something else
Candidates(doc) ==
    IF doc.kind = "array" THEN ArrayProp(doc.elems)
    ELSE IF doc.kind # "object" THEN StringProp
    ELSE IF doc.groups.t = "object"
    THEN ArrayProp(FlattenGroups(doc.groups.entries))
    ELSE IF doc.vulnerabilities.t # "absent" THEN doc.vulnerabilities
    ELSE IF doc.data.t # "absent" THEN doc.data
    ELSE IF doc.items.t # "absent" THEN doc.items
    ELSE IF KeyCount(doc) = 1 THEN doc.others[1]
    ELSE [t |-> "object", recs |-> <<>>]

\* the element processedData holds at index, counted from zero
processedItem(item, index) ==
    [item EXCEPT !.id = OrElse(item.id, Str(VulnId(index))),
                 !.severity = IF OrElse(item.severity, Undefined).t
                                     = "undefined"
                              THEN item.severity
                              ELSE Str(TitleCase(item.severity.v))]

\* item.severity.charAt is not a function: a truthy severity that is no
\* string raises a TypeError in the map callback
processedItemThrows(item) ==
    OrElse(item.severity, Undefined).t \notin {"undefined", "string"}

\* the catch block rethrows, so a failed call returns nothing
loadVulnerabilityData(doc) ==
    LET resolved == Candidates(doc)
    IN  IF resolved.t # "array"
        THEN [status |-> "error", error |-> "Error", data |-> <<>>]
        ELSE IF \E i \in 1..Len(resolved.recs) :
                    processedItemThrows(resolved.recs[i])
        THEN [status |-> "error", error |-> "TypeError", data |-> <<>>]
        ELSE [status |-> "ok", error |-> "none",
              data |-> [i \in 1..Len(resolved.recs) |->
                            processedItem(resolved.recs[i], i - 1)]]

sTime == <<49>>
sPublished == <<50>>
wOwn == Raw(Str(<<97>>), Str(<<98>>), Str(sHIGH), Arr(<<sHasFix>>),
            Undefined, Str(sTime), Undefined)
wBare == Raw(Undefined, Undefined, Undefined, Obj(<<sHasFix, sInUse>>),
             Str(sPublished), Undefined, Str(<<110>>))
\* a record whose own id has the form of a synthesized one
wClash == Raw(Str(VulnId(1)), Str(<<99>>), Str(lcLow), Undefined,
              Str(sPublished), Str(sTime), Undefined)
\* a severity whose first letter has a two-letter upper case
wSharp == Raw(Str(<<100>>), Str(<<100>>), Str(<<223, 101>>), Arr(<<>>),
              Undefined, Str(sTime), Undefined)
\* a severity given as a number
wNum == Raw(Str(<<101>>), Str(<<101>>), Num(5), Arr(<<>>),
            Undefined, Str(sTime), Undefined)
RawRecords == {wOwn, wBare, wClash, wSharp, wNum}

ArrayDoc(recs) == [NoResponse EXCEPT !.kind = "array", !.elems = recs]
EmptyObject == [NoResponse EXCEPT !.kind = "object"]
KeyDoc(key, recs) == [EmptyObject EXCEPT ![key] = ArrayProp(recs)]
SingleKeyDoc(recs) == [EmptyObject EXCEPT !.others = <<ArrayProp(recs)>>]
Entry(image, recsProp) ==
    [groupName |-> sGroup, repoName |-> sRepo, version |-> sVersion,
     image |-> image, vulnerabilities |-> recsProp]
NoImage == Raw(Undefined, Undefined, Undefined, Undefined, Undefined,
               Undefined, Undefined)
\* one image that carries the candidates as its vulnerabilities
GroupsListDoc(recs) ==
    [EmptyObject EXCEPT !.groups =
        [t |-> "object", entries |-> <<Entry(NoImage, ArrayProp(recs))>>]]
\* one image per candidate, each image a record itself
GroupsImageDoc(recs) ==
    [EmptyObject EXCEPT !.groups =
        [t |-> "object",
         entries |-> [i \in 1..Len(recs) |-> Entry(recs[i], Absent)]]]

Unresolvable ==
    {[NoResponse EXCEPT !.kind = "string"],
     NoResponse,
     EmptyObject,
     [EmptyObject EXCEPT !.others = <<ArrayProp(<<wOwn>>), StringProp>>],
     [EmptyObject EXCEPT !.others = <<StringProp>>],
     [EmptyObject EXCEPT !.vulnerabilities = StringProp,
                         !.data = ArrayProp(<<wOwn>>)]}

Documents ==
    UNION {{ArrayDoc(recs), KeyDoc("vulnerabilities", recs),
            KeyDoc("data", recs), KeyDoc("items", recs), SingleKeyDoc(recs),
            GroupsListDoc(recs), GroupsImageDoc(recs)} :
               recs \in BoundedSeq(RawRecords, MaxRaw)}
      \cup Unresolvable

LoaderInit ==
    /\ AppInit /\ PureIdle /\ WorkerIdle /\ SearchIdle
    /\ response \in Documents
    /\ loaded = NotLoaded
    /\ reloaded = NotLoaded

\* one call of loadVulnerabilityData() on the document the request returned
CallLoad ==
    /\ loaded.status = "none"
    /\ loaded' = loadVulnerabilityData(response)
    /\ UNCHANGED <<response, reloaded, appVars, pureVars, workerVars,
                   searchVars>>

\* one more call, on a document that is the array the first call returned
CallLoadAgain ==
    /\ loaded.status = "ok"
    /\ reloaded.status = "none"
    /\ reloaded' = loadVulnerabilityData(ArrayDoc(loaded.data))
    /\ UNCHANGED <<response, loaded, appVars, pureVars, workerVars,
                   searchVars>>

LoaderNext ==
    \/ CallLoad
    \/ CallLoadAgain

LoaderSpec == LoaderInit /\ [][LoaderNext]_vars

(***************************************************************************)
(* SearchInterface: the search input, the severity select and the reset    *)
(* button, with lodash debounce.  Time passes in ticks; the wait of 300 ms *)
(* is DebounceWait ticks.  A debounced function invokes its function with  *)
(* the arguments of the last call once the wait has passed since that call.*)
(***************************************************************************)
DebounceWait == 2

\* a call that leaves a running timer as it is, so that the invocation comes
\* one wait after the first call
debouncedKeepsTimer(d, filterType, term, severities) ==
    [pending |-> TRUE, elapsed |-> IF d.pending THEN d.elapsed ELSE 0,
     filterType |-> filterType, term |-> term, severities |-> severities]

\* one call of a debounced function: lastArgs and lastCallTime are replaced
debounced(d, filterType, term, severities) ==
    [pending |-> TRUE, elapsed |-> 0, filterType |-> filterType,
     term |-> term, severities |-> severities]

\* the changes of the burst after one more change of a field; a burst ends
\* with the first input after a filter apply
Changed(field) ==
    LET burst == IF applies > 0 THEN NoChanges ELSE dirty
    IN  [burst EXCEPT ![field] = IF @ < MaxBurst THEN @ + 1 ELSE @]

\* what a step of SearchInterface leaves alone outside the component
SearchFrame ==
    /\ depsChanged' = FALSE
    /\ Commit(TableState)
    /\ UNCHANGED <<ctxVars, comparisonList, mounted, sortField,
                   sortDirection, deliveredDisposed, pureVars, workerVars,
                   loaderVars>>

handleSearchChange(value) ==
    /\ Ready
    /\ value # searchTerm
    /\ searchTerm' = value
    /\ debouncedApplyFilter' =
           debounced(debouncedApplyFilter, "searchTerm", value, <<>>)
    /\ debouncedSearch' = debounced(debouncedSearch, "none", value, <<>>)
    /\ quiet' = 0
    /\ requested' = [requested EXCEPT !.searchTerm = value]
    /\ dirty' = Changed("searchTerm")
    /\ applies' = 0
    /\ sinceReset' = FALSE
    /\ lastStep' = "handleSearchChange"
    /\ SearchFrame
    /\ UNCHANGED suggestions

\* the select shows the applied severities, so a change differs from them
handleSeverityChange(severities) ==
    /\ Ready
    /\ severities # filters.selectedSeverities
    /\ debouncedApplyFilter' =
           debounced(debouncedApplyFilter, "selectedSeverities", sEmpty,
                     severities)
    /\ quiet' = 0
    /\ requested' = [requested EXCEPT !.selectedSeverities = severities]
    /\ dirty' = Changed("selectedSeverities")
    /\ applies' = 0
    /\ sinceReset' = FALSE
    /\ lastStep' = "handleSeverityChange"
    /\ SearchFrame
    /\ UNCHANGED <<searchTerm, suggestions, debouncedSearch>>

hasActiveFilters ==
    filters.searchTerm # sEmpty \/ Len(filters.selectedSeverities) > 0

\* resetFilters() of the context: the default filter state, and the
\* memoized filterVulnerabilities with the table's re-render
resetFilters ==
    /\ Ready
    /\ filters' = NoFilters
    /\ LET r == filterVulnerabilities(<<data>>, 1, ToCriteria(filters'))
           newArray == ~(r.ref = 1 /\ filteredIsData)
       IN  /\ data' = First(r)
           /\ filteredData' = Returned(r)
           /\ filteredIsData' = (r.ref = 1)
           /\ metrics' = useMemoMetrics(data, FALSE).value
           /\ metricsRuns' = useMemoMetrics(data, FALSE).runs
           /\ depsChanged' = (mounted /\ newArray)
           /\ IF mounted /\ newArray
              THEN Commit(RerunEffect(TableState, Returned(r), sortField,
                                      sortDirection))
              ELSE Commit(TableState)
    /\ lastStep' = "resetFilters"
    /\ UNCHANGED <<loadState, selectedTab,
                   comparisonList, mounted, sortField, sortDirection,
                   deliveredDisposed, pureVars, workerVars, loaderVars>>

\* the button is rendered while a filter is applied; the handler does not
\* touch the debounced functions
handleReset ==
    /\ hasActiveFilters
    /\ searchTerm' = sEmpty
    /\ suggestions' = <<>>
    /\ resetFilters
    /\ requested' = NoFilters
    /\ dirty' = NoChanges
    /\ applies' = 0
    /\ sinceReset' = TRUE
    /\ UNCHANGED <<debouncedApplyFilter, debouncedSearch, quiet>>

Due(d) == d.pending /\ d.elapsed = DebounceWait

Elapse(d) == IF d.pending THEN [d EXCEPT !.elapsed = @ + 1] ELSE d

\* one tick of time passes; a timer that is due runs before time moves on
Tick ==
    /\ Ready
    /\ ~Due(debouncedApplyFilter) /\ ~Due(debouncedSearch)
    /\ debouncedApplyFilter.pending \/ debouncedSearch.pending
          \/ quiet < DebounceWait
    /\ debouncedApplyFilter' = Elapse(debouncedApplyFilter)
    /\ debouncedSearch' = Elapse(debouncedSearch)
    /\ quiet' = IF quiet < DebounceWait THEN quiet + 1 ELSE quiet
    /\ lastStep' = "tick"
    /\ SearchFrame
    /\ UNCHANGED <<searchTerm, suggestions, requested, dirty, applies,
                   sinceReset>>

\* the trailing edge of debouncedApplyFilter: applyFilter(filterType, value)
invokeApplyFilter ==
    /\ Due(debouncedApplyFilter)
    /\ IF debouncedApplyFilter.filterType = "searchTerm"
       THEN applyFilter("searchTerm", debouncedApplyFilter.term)
       ELSE applyFilter("selectedSeverities",
                        debouncedApplyFilter.severities)
    /\ debouncedApplyFilter' = NotPending
    /\ applies' = IF applies < MaxBurst THEN applies + 1 ELSE applies
    /\ UNCHANGED <<searchTerm, suggestions, debouncedSearch, quiet,
                   requested, dirty, sinceReset>>

RECURSIVE Distinct(_)
\* Array.from(new Set(combined))
Distinct(q) ==
    IF q = <<>> THEN <<>>
    ELSE LET rest == Distinct(SubSeq(q, 1, Len(q) - 1))
         IN  IF q[Len(q)] \in SeqToSet(rest) THEN rest
             ELSE Append(rest, q[Len(q)])

RECURSIVE Truthy(_, _)
\* data.map((item) => item[field]).filter(Boolean)
Truthy(arr, field) ==
    IF arr = <<>> THEN <<>>
    ELSE (IF Head(arr)[field].t = "string" /\ Head(arr)[field].v # sEmpty
          THEN <<Head(arr)[field].v>> ELSE <<>>)
             \o Truthy(Tail(arr), field)

searchIndex == Distinct(Truthy(data, "package") \o Truthy(data, "cve"))

RECURSIVE Including(_, _)
Including(q, lowerTerm) ==
    IF q = <<>> THEN <<>>
    ELSE (IF includes(toLowerCase(Head(q)), lowerTerm)
          THEN <<Head(q)>> ELSE <<>>) \o Including(Tail(q), lowerTerm)

\* the trailing edge of debouncedSearch
invokeSearch ==
    /\ Due(debouncedSearch)
    /\ suggestions' = IF Len(debouncedSearch.term) < 2 THEN <<>>
                      ELSE Including(searchIndex,
                                     toLowerCase(debouncedSearch.term))
    /\ debouncedSearch' = NotPending
    /\ lastStep' = "invokeSearch"
    /\ SearchFrame
    /\ UNCHANGED <<searchTerm, debouncedApplyFilter, quiet, requested,
                   dirty, applies, sinceReset>>

SearchNext ==
    \/ Load
    \/ \E value \in SearchTerms : handleSearchChange(value)
    \/ \E severities \in SeverityChoices : handleSeverityChange(severities)
    \/ handleReset
    \/ Tick
    \/ invokeApplyFilter
    \/ invokeSearch

SearchSpec == Init /\ [][SearchNext]_vars

(***************************************************************************)
(* Properties of the guarded sort.                                         *)
(***************************************************************************)
\* C1: in every reachable state at most one deferred sort is pending for the
\* table, whatever requests, callback firings and teardowns came before.
C1_SingleFlight == Cardinality(timers) <= 1

\* a request arrived while a sort was pending, and one sort is pending
C1_Witness ==
    /\ lastStep = "applyFilter"
    /\ depsChanged /\ cancelledPending
    /\ Cardinality(timers) = 1

C3_DeferredStart ==
    [][sortRan' => (sortingRef /\ isSorting /\ ~depsChanged'
                    /\ lastStep' = "timeout")]_vars

\* the sort ran in a callback that followed a column click
C3_Witness == sortRan /\ lastStep = "timeout" /\ sortField # NoField

\* C4: while the table is unmounted no deferred sort is pending, the busy
\* flag is idle, and no callback has ever run for an unmounted table.
C4_Teardown ==
    /\ ~mounted => (timers = {} /\ ~sortingRef)
    /\ ~deliveredDisposed

\* the table was torn down while a sort was in flight
C4_Witness ==
    /\ lastStep = "handleTabChange"
    /\ ~mounted /\ cancelledPending

C6_FailureKeepsView ==
    \A s \in settled :
        s.error # "none" =>
            /\ s.call \notin {p.call : p \in pendingRequestsRef}
            /\ s.data = calls[s.call].data

(***************************************************************************)
(* Properties of the metrics and of the pure functions.                    *)
(***************************************************************************)
ViewSteps ==
    {"applyFilter", "handleSort", "handleTabChange", "timeout",
     "handleAddToComparison", "handleRemoveFromComparison",
     "handleClearComparison"}

\* C7: the metrics are computed once, when the base dataset is loaded, and
\* are those of the base dataset; no filter, sort, tab or comparison step
\* changes them or computes them again.
C7_MetricsOnce ==
    /\ [][lastStep' \in ViewSteps =>
             (metrics' = metrics /\ metricsRuns' = metricsRuns)]_vars
    /\ [](Ready => (metricsRuns = 1
                    /\ metrics = processVulnerabilityData(data)))

\* a filter is applied that hides part of a loaded dataset
C7_Witness ==
    /\ Ready /\ lastStep = "applyFilter"
    /\ Len(filteredData) < Len(data)
    /\ metrics.total = Len(data)

\* C8: after a call of filterVulnerabilities or sortVulnerabilities the
\* argument array holds what it held before the call, and the base array
\* holds what it held before any call.
C8_Purity == pArgAfter = pArg /\ pBase = pBase0

\* a sort returned a reordered array and left its argument alone
C8_Witness ==
    /\ pCall.fn = "sort"
    /\ Len(pArg) >= 2
    /\ pRet # pArg
    /\ pArgAfter = pArg

\* the sort-field value of a record is neither null nor undefined
HasValue(rec, field) ==
    IF field = "riskFactorsCount" THEN ~IsNullish(rec.riskFactors)
    ELSE ~IsNullish(rec[field])

\* C9 as stated: in the output of a sort no record without a sort-field
\* value comes before a record with one, for every field and direction.
C9_NullsLast ==
    pCall.fn = "sort" =>
        \A i, j \in 1..Len(pRet) :
            (i < j) => ~(~HasValue(pRet[i], pCall.field)
                         /\ HasValue(pRet[j], pCall.field))

SeverityRank(rec) ==
    IF IsNullish(rec.severity) THEN 0
    ELSE LET name == toLowerCase(rec.severity.v)
         IN  CASE name = <<99, 114, 105, 116, 105, 99, 97, 108>> -> 4
               [] name = <<104, 105, 103, 104>> -> 3
               [] name = <<109, 101, 100, 105, 117, 109>> -> 2
               [] name = <<108, 111, 119>> -> 1
               [] OTHER -> 0

\* C11: in the output of a sort by severity, descending, no record of
\* higher rank stands after a record of lower rank, and ascending none
\* stands before one.
C11_SeverityOrder ==
    (pCall.fn = "sort" /\ pCall.field = "severity") =>
        \A i, j \in 1..Len(pRet) :
            (i < j) =>
                IF pCall.direction = "desc"
                THEN SeverityRank(pRet[i]) >= SeverityRank(pRet[j])
                ELSE SeverityRank(pRet[i]) <= SeverityRank(pRet[j])

Occurrences(q, x) == Cardinality({i \in 1..Len(q) : q[i] = x})

IsPermutation(p, q) ==
    /\ Len(p) = Len(q)
    /\ \A x \in SeqToSet(p) \cup SeqToSet(q) :
           Occurrences(p, x) = Occurrences(q, x)

\* x may stand right before y in ascending order of the field
AscendingPair(x, y, field) ==
    IF field = "riskFactorsCount"
    THEN Len(x.riskFactors.v) <= Len(y.riskFactors.v)
    ELSE IF field = "severity"
    THEN SEVERITY_ORDER(toLowerCase(x.severity.v))
             <= SEVERITY_ORDER(toLowerCase(y.severity.v))
    ELSE IF x[field].t = "string" /\ y[field].t = "string"
    THEN ~StrLess(toLowerCase(y[field].v), toLowerCase(x[field].v))
    ELSE IF x[field].t = "number" /\ y[field].t = "number"
    THEN NumVal(x[field]) <= NumVal(y[field])
    ELSE TRUE

\* C10: the output of a sort is a permutation of its input, and two
\* neighbours that both have a sort-field value stand in the order of the
\* field's comparison rule, in the requested direction.
C10_SortOrder ==
    pCall.fn = "sort" =>
        /\ IsPermutation(pRet, pArg)
        /\ \A i \in 1..(Len(pRet) - 1) :
               (HasValue(pRet[i], pCall.field)
                /\ HasValue(pRet[i + 1], pCall.field)) =>
                   IF pCall.direction = "asc"
                   THEN AscendingPair(pRet[i], pRet[i + 1], pCall.field)
                   ELSE AscendingPair(pRet[i + 1], pRet[i], pCall.field)

\* three records were put in descending order of their package names
C10_Witness ==
    /\ pCall.fn = "sort" /\ pCall.field = "package"
    /\ pCall.direction = "desc"
    /\ Len(pRet) >= 3
    /\ pRet # pArg
    /\ \A i \in 1..Len(pRet) : HasValue(pRet[i], "package")

(***************************************************************************)
(* Properties of the record normalizer.                                    *)
(***************************************************************************)
\* C13: when loadVulnerabilityData returns a dataset, no two of its records
\* have the same id, whether the ids came from the source or were
\* synthesized as vuln-<index>.
C13_UniqueIds ==
    loaded.status = "ok" =>
        \A i, j \in 1..Len(loaded.data) :
            i # j => loaded.data[i].id # loaded.data[j].id

\* C14: when loadVulnerabilityData returns a dataset, every record's
\* riskFactors is a sequence of labels, whatever the shape of the document;
\* a keyed mapping in the source has become the sequence of its keys.
C14_RiskFactorsSequence ==
    loaded.status = "ok" =>
        \A i \in 1..Len(loaded.data) :
            /\ loaded.data[i].riskFactors.t = "array"
            /\ (response.kind = "array"
                  /\ response.elems[i].riskFactors.t = "object")
               => loaded.data[i].riskFactors.v
                      = response.elems[i].riskFactors.v

(***************************************************************************)
(* Properties of the metrics.                                              *)
(***************************************************************************)
\* C15: on a dataset with records whose severity or kaiStatus is missing or
\* unrecognized, computing the metrics completes and counts every record in
\* total, and sorting completes and keeps every record.
C15_FieldProblemsNotFatal ==
    /\ (pStage = "called" /\ pCall.fn = "metrics")
          => (~pMetrics.threw /\ pMetrics.value.total = Len(pArg))
    /\ (pStage = "called" /\ pCall.fn = "sort") => Len(pRet) = Len(pArg)

MetricsReturned ==
    pStage = "called" /\ pCall.fn = "metrics" /\ ~pMetrics.threw

\* C16: in the metrics of any dataset the three kaiStatusBreakdown counts add
\* up to total; the first two count the records whose kaiStatus is exactly
\* 'invalid - norisk' and exactly 'ai-invalid-norisk', other counts the rest.
C16_KaiPartition ==
    MetricsReturned =>
        LET k == pMetrics.value.kaiStatusBreakdown
            Tagged(tag) ==
                Cardinality({i \in 1..Len(pArg) :
                                pArg[i].kaiStatus = Str(tag)})
        IN  /\ pMetrics.value.total = Len(pArg)
            /\ k.invalidNoRisk + k.aiInvalidNoRisk + k.other
                   = pMetrics.value.total
            /\ k.invalidNoRisk = Tagged(sInvalidNoRisk)
            /\ k.aiInvalidNoRisk = Tagged(sAiInvalidNoRisk)
            /\ k.other = Len(pArg) - Tagged(sInvalidNoRisk)
                             - Tagged(sAiInvalidNoRisk)

\* metrics of three records, one in each of the three buckets
C16_Witness ==
    /\ MetricsReturned
    /\ Len(pArg) = 3
    /\ pMetrics.value.kaiStatusBreakdown.invalidNoRisk = 1
    /\ pMetrics.value.kaiStatusBreakdown.aiInvalidNoRisk = 1
    /\ pMetrics.value.kaiStatusBreakdown.other = 1

\* C17: in the metrics of any dataset the four severityDistribution counts
\* add up to at most total, and to exactly total when and only when every
\* record's severity is, in any letter case, critical, high, medium or low.
C17_SeverityBound ==
    MetricsReturned =>
        LET d == pMetrics.value.severityDistribution
            sum == d.critical + d.high + d.medium + d.low
            Recognized(rec) ==
                /\ rec.severity.t = "string"
                /\ toLowerCase(rec.severity.v)
                       \in {lcCritical, lcHigh, lcMedium, lcLow}
        IN  /\ sum <= pMetrics.value.total
            /\ sum = pMetrics.value.total
                   <=> \A i \in 1..Len(pArg) : Recognized(pArg[i])

\* metrics of a dataset in which some severities are recognized, in upper and
\* in title case, and some are not
C17_Witness ==
    /\ MetricsReturned
    /\ pMetrics.value.severityDistribution.critical = 1
    /\ pMetrics.value.severityDistribution.high = 1
    /\ pMetrics.value.total = 3
    /\ \E i \in 1..Len(pArg) : pArg[i].severity = Str(sCRITICAL)

(***************************************************************************)
(* Properties of the filter.                                               *)
(***************************************************************************)
FilterReturned == pStage = "called" /\ pCall.fn = "filter"

\* the criteria of the last call with one more criterion in a slot that was
\* empty or absent
OneMore ==
    LET f == pCall.filters
    IN  (IF IsNullish(f.searchTerm) \/ f.searchTerm.v = sEmpty
         THEN {[f EXCEPT !.searchTerm = Str(<<98>>)]} ELSE {})
        \cup (IF Active(f.severities) THEN {}
              ELSE {[f EXCEPT !.severities = Arr(<<sHigh>>)]})
        \cup (IF Active(f.riskFactors) THEN {}
              ELSE {[f EXCEPT !.riskFactors = Arr(<<sHasFix>>)]})
        \cup (IF Active(f.excludeKaiStatus) THEN {}
              ELSE {[f EXCEPT !.excludeKaiStatus = Arr(<<sNeedsReview>>)]})

ResultWith(criteria) ==
    Returned(filterVulnerabilities(<<pArg>>, 1, criteria))

\* C18: the result of filterVulnerabilities is never longer than its input,
\* and with one more non-empty criterion added to the criteria the result on
\* the same input is never longer than without it.
C18_Monotone ==
    FilterReturned =>
        /\ Len(pRet) <= Len(pArg)
        /\ \A more \in OneMore : Len(ResultWith(more)) <= Len(pRet)

\* a risk-factor filter kept two of three records, and a severity criterion
\* added to it keeps fewer
C18_Witness ==
    /\ FilterReturned
    /\ Active(pCall.filters.riskFactors)
    /\ Len(pArg) = 3 /\ Len(pRet) = 2
    /\ Len(ResultWith([pCall.filters EXCEPT
                           !.severities = Arr(<<sHigh>>)])) = 1

\* the records of arr whose severity equals, letter case aside, one of names
RECURSIVE SeverityMembers(_, _)
SeverityMembers(arr, names) ==
    IF arr = <<>> THEN <<>>
    ELSE LET rec == Head(arr)
             member == /\ rec.severity.t = "string"
                       /\ \E name \in names :
                              toLowerCase(name) = toLowerCase(rec.severity.v)
         IN  (IF member THEN <<rec>> ELSE <<>>)
                 \o SeverityMembers(Tail(arr), names)

OnlySeverities ==
    /\ FilterReturned
    /\ IsNullish(pCall.filters.searchTerm)
          \/ pCall.filters.searchTerm.v = sEmpty
    /\ ~Active(pCall.filters.riskFactors)
    /\ ~Active(pCall.filters.excludeKaiStatus)

\* C19: with a non-empty severities set and no other criterion the result
\* holds exactly the input records whose severity equals a member of the set,
\* letter case aside, in input order; with an empty or absent set the result
\* holds every input record.
C19_SeverityMembership ==
    OnlySeverities =>
        pRet = IF Active(pCall.filters.severities)
               THEN SeverityMembers(pArg,
                                    SeqToSet(pCall.filters.severities.v))
               ELSE pArg

\* ['Critical', 'HIGH'] kept a 'CRITICAL' and a 'High' record and dropped a
\* third record
C19_Witness ==
    /\ OnlySeverities
    /\ pCall.filters.severities = Arr(<<sCritical, sHIGH>>)
    /\ Len(pArg) = 3 /\ Len(pRet) = 2
    /\ \E i, j \in 1..2 : /\ pRet[i].severity = Str(sCRITICAL)
                          /\ pRet[j].severity = Str(sHigh)

\* the risk-factor labels of a record, in the sequence or in the keyed form
Labels(rec) ==
    IF rec.riskFactors.t \in {"array", "object"}
    THEN SeqToSet(rec.riskFactors.v) ELSE {}

\* the records of arr with a non-empty label among wanted
RECURSIVE RiskMembers(_, _)
RiskMembers(arr, wanted) ==
    IF arr = <<>> THEN <<>>
    ELSE (IF (Labels(Head(arr)) \ {sEmpty}) \cap wanted # {}
          THEN <<Head(arr)>> ELSE <<>>)
             \o RiskMembers(Tail(arr), wanted)

OnlyRiskFactors ==
    /\ FilterReturned
    /\ IsNullish(pCall.filters.searchTerm)
          \/ pCall.filters.searchTerm.v = sEmpty
    /\ ~Active(pCall.filters.severities)
    /\ ~Active(pCall.filters.excludeKaiStatus)

\* C20: with a non-empty riskFactors set and no other criterion the result
\* holds exactly the input records that have a label equal to a member of
\* the set, so no record without risk factors; with an empty or absent set
\* the result holds every input record.
C20_RiskFactorMembership ==
    OnlyRiskFactors =>
        pRet = IF Active(pCall.filters.riskFactors)
               THEN RiskMembers(pArg, SeqToSet(pCall.filters.riskFactors.v))
               ELSE pArg

\* C21: loading a flat array of records that a load returned gives records
\* equal to that array's, in the same order, each with its id and its
\* severity.
C21_Idempotent ==
    reloaded.status # "none" =>
        /\ reloaded.status = "ok"
        /\ reloaded.data = loaded.data
        /\ \A i \in 1..Len(loaded.data) :
               /\ reloaded.data[i].id = loaded.data[i].id
               /\ reloaded.data[i].severity = loaded.data[i].severity

\* the document is a sequence, or an object in which the first of groups,
\* vulnerabilities, data, items, or else its only key, holds a sequence
ResolvesSequence(doc) ==
    \/ doc.kind = "array"
    \/ /\ doc.kind = "object"
       /\ IF doc.groups.t # "absent" THEN doc.groups.t = "object"
          ELSE IF doc.vulnerabilities.t # "absent"
          THEN doc.vulnerabilities.t = "array"
          ELSE IF doc.data.t # "absent" THEN doc.data.t = "array"
          ELSE IF doc.items.t # "absent" THEN doc.items.t = "array"
          ELSE Len(doc.others) = 1 /\ doc.others[1].t = "array"

\* C22: a load fails, returning no dataset, exactly when the document is
\* neither a sequence nor an object from which the key search resolves a
\* sequence; for every other document it returns a sequence.
C22_FormatError ==
    loaded.status # "none" =>
        /\ loaded.status = "error" <=> ~ResolvesSequence(response)
        /\ loaded.status = "error" => loaded.data = <<>>

\* the record candidates of a document, in order, where the document is a
\* sequence or gives them under one key or under one image
SourceCandidates(doc) ==
    IF doc.kind = "array" THEN doc.elems
    ELSE IF doc.groups.t = "object"
    THEN IF Len(doc.groups.entries) = 1
            /\ doc.groups.entries[1].vulnerabilities.t = "array"
         THEN doc.groups.entries[1].vulnerabilities.recs
         ELSE [i \in 1..Len(doc.groups.entries) |->
                   doc.groups.entries[i].image]
    ELSE IF doc.vulnerabilities.t = "array" THEN doc.vulnerabilities.recs
    ELSE IF doc.data.t = "array" THEN doc.data.recs
    ELSE IF doc.items.t = "array" THEN doc.items.recs
    ELSE IF Len(doc.others) = 1 THEN doc.others[1].recs
    ELSE <<>>

\* C23: every record of a returned dataset has the timestamp of its source
\* candidate when the candidate has one, and otherwise the candidate's
\* published value.
C23_TimestampFallback ==
    (loaded.status = "ok"
        /\ Len(loaded.data) = Len(SourceCandidates(response))) =>
        \A i \in 1..Len(loaded.data) :
            LET source == SourceCandidates(response)[i]
            IN  loaded.data[i].timestamp =
                    IF source.timestamp.t # "undefined"
                    THEN source.timestamp ELSE source.published

(***************************************************************************)
(* Properties of the displayed view and of the comparison list.            *)
(***************************************************************************)
\* C24: initially no sort field is selected, and whenever the table is shown
\* with no sort field selected its rows are its input data in the input's
\* order, also after filtering changed the input.
C24_NoAutoSort ==
    /\ sortField = NoField
    /\ [](mounted /\ sortField = NoField => sortedData = filteredData)

\* a filter change gave the shown table, with no sort field, a new input of
\* at least one record
C24_Witness ==
    /\ mounted /\ sortField = NoField
    /\ lastStep = "applyFilter" /\ depsChanged
    /\ filteredData # data
    /\ Len(sortedData) >= 1

\* C26: the comparison list never holds two records with the same id, and a
\* step that changes the filter or the sort, or completes a sort, leaves the
\* list's entries and their order as they were.
C26_ComparisonKeyed ==
    /\ [](\A i, j \in 1..Len(comparisonList) :
             i # j => comparisonList[i].id # comparisonList[j].id)
    /\ [][lastStep' \in {"applyFilter", "handleSort", "timeout"}
             => comparisonList' = comparisonList]_vars

\* two records are in the comparison list and a filter change has removed
\* one of them from the rows of the table
C26_Witness ==
    /\ Len(comparisonList) = 2
    /\ lastStep = "applyFilter"
    /\ \E i \in 1..2 : comparisonList[i] \notin Rows
    /\ \E i \in 1..2 : comparisonList[i] \in Rows

\* the rows shown are the sort of the table's current input by the current
\* field and direction
ShowsCurrentSort ==
    /\ sortField # NoField
    /\ sortedData = Returned(sortVulnerabilities(<<filteredData>>, 1, sortField,
                                              sortDirection))

OnlySearchChanged == dirty.searchTerm >= 1 /\ dirty.selectedSeverities = 0

\* C25: for a burst of search-input changes, each less than the wait after
\* the one before, applyFilter is invoked at most once; the invocation comes
\* when the wait has passed without input since the last change, and it
\* applies the value of the last change.
C25_Debounced ==
    /\ [](OnlySearchChanged =>
             /\ applies <= 1
             /\ applies = 1 => filters.searchTerm = requested.searchTerm)
    /\ [][(OnlySearchChanged /\ lastStep' = "applyFilter")
             => quiet = DebounceWait]_vars

\* two or more search-input changes were followed by one filter apply
C25_Witness ==
    /\ lastStep = "applyFilter"
    /\ dirty.searchTerm >= 2 /\ dirty.selectedSeverities = 0
    /\ applies = 1
    /\ filters.searchTerm = requested.searchTerm

\* C29: from a press of 'Reset All Filters' until the next user input the
\* applied search term and severity set are empty, whether or not a
\* debounced filter apply was pending when the button was pressed.
C29_ResetWins == sinceReset => filters = NoFilters

\* C30: once no debounced apply is pending after a burst in which both the
\* search term and the severity selection were changed, the filter state has
\* the last value given to each of the two fields.
C30_NoLostUpdate ==
    (~debouncedApplyFilter.pending
        /\ dirty.searchTerm >= 1 /\ dirty.selectedSeverities >= 1)
        => filters = requested

(***************************************************************************)
(* Correlation of the sort worker's requests and replies.                  *)
(***************************************************************************)
SettledCalls == {s.call : s \in settled}
PendingCalls == {p.call : p \in pendingRequestsRef}
InFlightIds ==
    {p.requestId : p \in pendingRequestsRef}
        \cup {toWorker[i].requestId : i \in DOMAIN toWorker}
        \cup {toMain[i].requestId : i \in DOMAIN toMain}

\* a promise is resolved at most once, a resolved request is not in the
\* pending map, and no two pending requests share a request id
ResolvedOnce ==
    /\ \A s, t \in settled : s.call = t.call => s = t
    /\ SettledCalls \cap PendingCalls = {}
    /\ \A p, q \in pendingRequestsRef :
           (p.requestId = q.requestId \/ p.call = q.call) => p = q
    /\ \A id \in InFlightIds : id <= requestIdRef

\* a request id handed out by a step is larger than every id handed out before
FreshIds ==
    /\ requestIdRef' >= requestIdRef
    /\ \A p \in pendingRequestsRef' \ pendingRequestsRef :
           p.requestId > requestIdRef

\* the step resolves call by the reply at the head of the worker's messages,
\* and that reply carries the request id the call is pending under
ByOwnReply(call) ==
    /\ toMain # <<>>
    /\ toMain' = Tail(toMain)
    /\ Head(toMain).type \in {"SORT_COMPLETE", "SORT_ERROR"}
    /\ \E p \in pendingRequestsRef :
           /\ p.call = call
           /\ p.requestId = Head(toMain).requestId
    /\ \E s \in settled' :
           /\ s.call = call
           /\ s.error = Head(toMain).error
           /\ Head(toMain).type = "SORT_COMPLETE" => s.data = Head(toMain).data

\* the step resolves call because the worker reported an error of its own
\* while the call was pending
ByWorkerError(call) ==
    /\ call \in PendingCalls
    /\ pendingRequestsRef' = {}
    /\ \E s \in settled' : s.call = call /\ s.error = "Worker error"

\* the step is the call itself, made while there is no worker
ByMissingWorker(call) ==
    /\ workerRef = "null"
    /\ call = Len(calls) + 1
    /\ Len(calls') = call
    /\ \E s \in settled' :
           s.call = call /\ s.error = "Worker not initialized"

\* C28 as stated: each request's promise is resolved at most once and only by
\* the reply that carries the request's own id, request ids are never reused,
\* and a resolved request is removed from the pending map.
C28_OnlyByOwnReply ==
    /\ []ResolvedOnce
    /\ [][/\ FreshIds
          /\ \A call \in SettledCalls' \ SettledCalls : ByOwnReply(call)]_vars

\* C28, amended: each call's promise is resolved at most once, by the reply
\* that carries the request's own id, by an error of the worker while the
\* request is pending, or by the call itself when there is no worker; a reply
\* never resolves another request; request ids are never reused; a resolved
\* request is removed from the pending map.
C28_Correlated ==
    /\ []ResolvedOnce
    /\ [][/\ FreshIds
          /\ \A call \in SettledCalls' \ SettledCalls :
                 \/ ByOwnReply(call)
                 \/ ByWorkerError(call)
                 \/ ByMissingWorker(call)]_vars

\* one call was resolved by a worker error and a later one by its own reply
C28_Witness ==
    /\ pendingRequestsRef = {}
    /\ \E s, t \in settled :
           /\ s.error = "Worker error"
           /\ t.error = "none"
           /\ s.call < t.call

=============================================================================
